---- MODULE Spec2Model ----
(***************************************************************************)
(* Quote pricing and quote lifecycle of the DC3 backend                    *)
(* (backend/controllers/pricingController.ts, quoteController) over the    *)
(* project_assessments / project_quotes / audit_logs tables.               *)
(*                                                                         *)
(* Units.  Money is held in cents (the DECIMAL(10,2) columns), so 5000.00  *)
(* is 500000.  Complexity scores are held in hundredths (DECIMAL(3,2)), so *)
(* 6.1 is 610.  Multipliers are held in tenths, so 1.3 is 13.  Time is     *)
(* held in ticks, TicksPerDay ticks to a day; a DATE column keeps the      *)
(* start of the day only.  The double arithmetic of the controller agrees  *)
(* with this exact arithmetic on every value the model draws.              *)
(***************************************************************************)
EXTENDS FiniteSets, Integers, Sequences, TLC

\* ------------------------------------------------------------------ bounds
MaxAuditLog == 2
MaxFeatures == 7
MaxComplexIntegrations == 5
MaxOtherIntegrations == 1
MaxLate == 1
TicksPerDay == 2
MaxVariantChars == 3

\* ------------------------------------------------------- program constants
ValidityDays == 30
DefaultBaseRate == 500000
BufferPercent == 115
DepositPercent == 30
Milestone1Percent == 30
Milestone2Percent == 20
FinalPercent == 20
FeaturePoints == 50
FeatureCap == 300
IntegrationPoints == 80
IntegrationCap == 300
ScoreCap == 1000
DefaultTypeComplexity == 100
DefaultBaseTimeline == 6
ScoreColumnLimit == 1000

ProjectType == {"creative", "fullstack", "web3", "ai_automation"}
Urgency == {"standard", "urgent", "critical"}
QuoteStatus == {"pending", "sent", "accepted", "declined", "expired"}
ActiveStatus == {"pending", "sent", "accepted"}
ComplexityLevel == {"low", "medium", "high", "critical"}
ComplexIntegrationTypes == <<"payment", "blockchain", "ai", "custom_api">>

NoUrgency == "null"
NoTimeline == "undefined"
NoScore == -1
NoTime == -1
NoText == "undefined"
NoUser == "undefined"
Null == [nil |-> TRUE]

\* Base rates by project type, as documented defaults
DefaultRates ==
  [t \in ProjectType |->
     CASE t = "creative" -> 500000
       [] t = "fullstack" -> 800000
       [] t = "web3" -> 1200000
       [] t = "ai_automation" -> 1000000]

\* Base rates as overridden through BASE_RATE_CREATIVE / BASE_RATE_WEB3
OverriddenRates ==
  [t \in ProjectType |->
     CASE t = "creative" -> 499900
       [] t = "fullstack" -> 800000
       [] t = "web3" -> 1234500
       [] t = "ai_automation" -> 1000000]

RateConfigs == {DefaultRates, OverriddenRates}

COMPLEXITY_MULTIPLIERS ==
  [l \in ComplexityLevel |->
     CASE l = "low" -> 10
       [] l = "medium" -> 13
       [] l = "high" -> 15
       [] l = "critical" -> 18]

URGENCY_MULTIPLIERS ==
  [u \in Urgency |->
     CASE u = "standard" -> 10
       [] u = "urgent" -> 13
       [] u = "critical" -> 15]

typeComplexity ==
  [t \in ProjectType |->
     CASE t = "creative" -> 100
       [] t = "fullstack" -> 200
       [] t = "web3" -> 300
       [] t = "ai_automation" -> 250]

baseTimeline ==
  [t \in ProjectType |->
     CASE t = "creative" -> 4
       [] t = "fullstack" -> 8
       [] t = "web3" -> 12
       [] t = "ai_automation" -> 10]

\* ----------------------------------------------------------- arithmetic
Min(a, b) == IF a < b THEN a ELSE b

\* Math.ceil of the rational n/d, d > 0, n >= 0
CeilDiv(n, d) == (n + d - 1) \div d

\* Math.round of the rational n/d (half rounds up), d > 0, n >= 0
RoundDiv(n, d) == (2 * n + d) \div (2 * d)

\* CountComplex that counts every integration
CountComplex_AllIntegrations(integrations) == Len(integrations)

\* integrations.filter(i => [...].includes(i.type)).length
RECURSIVE CountComplex(_)
CountComplex(integrations) ==
  IF integrations = <<>> THEN 0
  ELSE (IF \E i \in 1..Len(ComplexIntegrationTypes) :
             ComplexIntegrationTypes[i] = Head(integrations).type
        THEN 1 ELSE 0) + CountComplex(Tail(integrations))

\* scope?.features || []
ScopeFeatures(scope) ==
  IF scope = Null \/ "features" \notin DOMAIN scope THEN <<>> ELSE scope.features

\* scope?.integrations || []
ScopeIntegrations(scope) ==
  IF scope = Null \/ "integrations" \notin DOMAIN scope THEN <<>>
  ELSE scope.integrations

\* scope?.timeline || 'standard'
ScopeTimeline(scope) ==
  IF scope = Null \/ scope.timeline = NoTimeline THEN "standard"
  ELSE scope.timeline

\* Points added for scope.timeline
TimelinePoints(timeline) ==
  (IF timeline = "urgent" THEN 150 ELSE 0)
  + (IF timeline = "critical" THEN 250 ELSE 0)

\* Points added for the project's urgency
UrgencyPoints(urgency) ==
  (IF urgency = "urgent" THEN 50 ELSE 0)
  + (IF urgency = "critical" THEN 100 ELSE 0)

\* typeComplexity[projectType] || 1.0
TypePoints(projectType) ==
  IF projectType \in DOMAIN typeComplexity /\ typeComplexity[projectType] # 0
  THEN typeComplexity[projectType] ELSE DefaultTypeComplexity

\* calculateComplexity without the final Math.min(score, 10.0)
calculateComplexity_Uncapped(projectType, scope, urgency) ==
  Min(Len(ScopeFeatures(scope)) * FeaturePoints, FeatureCap)
  + Min(CountComplex(ScopeIntegrations(scope)) * IntegrationPoints, IntegrationCap)
  + TimelinePoints(ScopeTimeline(scope))
  + TypePoints(projectType)
  + UrgencyPoints(urgency)

\* Complexity score of a project scope, in hundredths (0.00 to 10.00)
calculateComplexity(projectType, scope, urgency) ==
  Min(Min(Len(ScopeFeatures(scope)) * FeaturePoints, FeatureCap)
      + Min(CountComplex(ScopeIntegrations(scope)) * IntegrationPoints,
            IntegrationCap)
      + TimelinePoints(ScopeTimeline(scope))
      + TypePoints(projectType)
      + UrgencyPoints(urgency),
      ScoreCap)

\* complexityLevel with the high level starting at 7 instead of 6
complexityLevel_HighFromSeven(complexityScore) ==
  IF complexityScore < 300 THEN "low"
  ELSE IF complexityScore < 700 THEN "medium"
  ELSE IF complexityScore < 800 THEN "high"
  ELSE "critical"

\* complexityLevel with each threshold belonging to the level below it
complexityLevel_ClosedThresholds(complexityScore) ==
  IF complexityScore <= 300 THEN "low"
  ELSE IF complexityScore <= 600 THEN "medium"
  ELSE IF complexityScore <= 800 THEN "high"
  ELSE "critical"

\* complexityScore < 3 ? 'low' : < 6 ? 'medium' : < 8 ? 'high' : 'critical'
complexityLevel(complexityScore) ==
  IF complexityScore < 300 THEN "low"
  ELSE IF complexityScore < 600 THEN "medium"
  ELSE IF complexityScore < 800 THEN "high"
  ELSE "critical"

\* project.urgency || 'standard'
UrgencyOrStandard(urgency) == IF urgency = NoUrgency THEN "standard" ELSE urgency

\* Adjustment that multiplies by the multiplier itself
Adjustment_FullMultiplier(baseRate, multiplier) == (baseRate * multiplier) \div 10

\* baseRate * (multiplier - 1), multiplier in tenths
Adjustment(baseRate, multiplier) == (baseRate * (multiplier - 10)) \div 10

\* baseRate + complexityAdjustment + urgencyAdjustment
TotalEstimate(baseRate, complexityAdjustment, urgencyAdjustment) ==
  baseRate + complexityAdjustment + urgencyAdjustment

\* NotToExceed with Math.floor in place of Math.ceil
NotToExceed_RoundedDown(totalEstimate) ==
  100 * ((totalEstimate * BufferPercent) \div 10000)

\* Math.ceil(totalEstimate * 1.15), whole currency units held in cents
NotToExceed(totalEstimate) ==
  100 * CeilDiv(totalEstimate * BufferPercent, 10000)

\* Installment with Math.floor in place of Math.round
Installment_Truncated(totalEstimate, percent) ==
  100 * ((totalEstimate * percent) \div 10000)

\* Math.round(totalEstimate * percent / 100), whole units held in cents
Installment(totalEstimate, percent) ==
  100 * RoundDiv(totalEstimate * percent, 10000)

\* The milestone payment structure of a quote
PaymentStructure(totalEstimate) ==
  [deposit |-> Installment(totalEstimate, DepositPercent),
   milestone_1 |-> Installment(totalEstimate, Milestone1Percent),
   milestone_2 |-> Installment(totalEstimate, Milestone2Percent),
   final |-> Installment(totalEstimate, FinalPercent)]

\* Math.ceil((baseTimeline[type] || 6) * complexityMultiplier)
EstimatedTimeline(projectType, complexityMultiplier) ==
  CeilDiv((IF projectType \in DOMAIN baseTimeline
           THEN baseTimeline[projectType] ELSE DefaultBaseTimeline)
          * complexityMultiplier, 10)

\* A DATE column keeps the day of a timestamp
DateOf(t) == (t \div TicksPerDay) * TicksPerDay

\* date.setDate(date.getDate() + days)
AddDays(t, days) == t + days * TicksPerDay


\* ------------------------------------------------------------------ state
Users == {"u1", "u2"}
ProjectIds == {"p1", "p2"}
MissingProject == "p0"
Slots == {1, 2}
Reasons == {NoText, "too expensive"}

VARIABLES
  BASE_RATES,   \* base rate by project type, read from the environment at load
  basePricing,  \* table base_pricing: price by (bundle, category id, scale id)
  now,          \* wall clock (new Date()), in ticks
  projects,     \* table project_assessments, by id
  quotes,       \* table project_quotes, in creation order; a quote's id is its index
  auditLog,     \* table audit_logs, in creation order
  otpVerifications, \* table otp_verifications, in creation order; a row's id is its index
  req,          \* the requests in flight, one per slot
  response      \* the HTTP response sent by the last step, if it sent one

vars ==
  <<BASE_RATES, basePricing, now, projects, quotes, auditLog, otpVerifications, req,
    response>>

\* The instants at which a request may arrive: around the creation of a
\* quote and around the end of its validity
Instants ==
  (0..1) \cup ((ValidityDays * TicksPerDay)..(ValidityDays * TicksPerDay + MaxLate))

\* A slot with no request in it
IdleSlot ==
  [pc |-> "idle", op |-> "none", userId |-> NoUser, projectId |-> MissingProject,
   quoteId |-> 0, reason |-> NoText, project |-> Null, quote |-> Null,
   updated |-> Null, complexityScore |-> NoScore, checkedAt |-> NoTime,
   writes |-> {}, pricing |-> Null, otp |-> Null]

NoResponse == [status |-> 0, error |-> "", body |-> <<>>, request |-> IdleSlot]

\* res.status(code).json({ success: false, error })
Failure(request, code, message) ==
  [status |-> code, error |-> message, body |-> <<>>, request |-> request]

\* res.json({ success: true, ... })
Success(request, body) ==
  [status |-> 200, error |-> "", body |-> body, request |-> request]

\* The requests in flight
InFlight == {r \in Slots : req[r].pc # "idle"}

\* A request is received in the first free slot; the audit log is kept
\* within MaxAuditLog entries
Free(r) ==
  /\ response = NoResponse
  /\ req[r].pc = "idle"
  /\ response = NoResponse
  /\ \A other \in Slots : other < r => req[other].pc # "idle"
  /\ Len(auditLog) + Cardinality(InFlight) < MaxAuditLog

\* ExistingQuote that looks for pending quotes only
ExistingQuote_PendingOnly(projectId) ==
  \E i \in 1..Len(quotes) :
     quotes[i].projectId = projectId /\ quotes[i].status = "pending"

\* prisma.projectQuote.findFirst({ projectId, status in pending/sent/accepted })
ExistingQuote(projectId) ==
  \E i \in 1..Len(quotes) :
     quotes[i].projectId = projectId /\ quotes[i].status \in ActiveStatus

\* BASE_RATES[project.projectType] || 5000
BaseRateOf(projectType) ==
  IF projectType \in DOMAIN BASE_RATES /\ BASE_RATES[projectType] # 0
  THEN BASE_RATES[projectType] ELSE DefaultBaseRate

\* The row generateQuote inserts into project_quotes
NewQuote(id, projectId, userId, project, complexityScore, t) ==
  LET baseRate == BaseRateOf(project.projectType)
      complexityMultiplier == COMPLEXITY_MULTIPLIERS[complexityLevel(complexityScore)]
      complexityAdjustment == Adjustment(baseRate, complexityMultiplier)
      urgencyMultiplier == URGENCY_MULTIPLIERS[UrgencyOrStandard(project.urgency)]
      urgencyAdjustment == Adjustment(baseRate, urgencyMultiplier)
      totalEstimate == TotalEstimate(baseRate, complexityAdjustment, urgencyAdjustment)
      estimatedTimeline == EstimatedTimeline(project.projectType, complexityMultiplier)
  IN [id |-> id,
      projectId |-> projectId,
      userId |-> userId,
      baseRate |-> baseRate,
      complexityAdjustment |-> complexityAdjustment,
      urgencyAdjustment |-> urgencyAdjustment,
      totalEstimate |-> totalEstimate,
      notToExceed |-> NotToExceed(totalEstimate),
      estimatedTimelineWeeks |-> estimatedTimeline,
      deliveryDate |-> DateOf(AddDays(t, estimatedTimeline * 7)),
      paymentStructure |-> PaymentStructure(totalEstimate),
      termsAccepted |-> FALSE,
      acceptedAt |-> NoTime,
      validUntil |-> DateOf(AddDays(t, ValidityDays)),
      status |-> "pending",
      createdAt |-> t,
      metadata |-> [declineReason |-> NoText, declinedAt |-> NoTime, source |-> NoText]]

\* ------------------------------------------------------- generateQuote
\* prisma.projectAssessment.findUnique({ where: { id } })
FindProject(projectId) == IF projectId \in ProjectIds THEN projects[projectId] ELSE Null

\* GenerateVerdict without the ownership check
GenerateVerdict_NoOwnership(userId, project) ==
  IF userId = NoUser THEN [status |-> 401, error |-> "Unauthorized"]
  ELSE IF project = Null THEN [status |-> 404, error |-> "Project not found"]
  ELSE [status |-> 200, error |-> ""]

\* The checks generateQuote makes before it looks for an active quote
GenerateVerdict(userId, project) ==
  IF userId = NoUser THEN [status |-> 401, error |-> "Unauthorized"]
  ELSE IF project = Null THEN [status |-> 404, error |-> "Project not found"]
  ELSE IF project.userId # userId THEN [status |-> 403, error |-> "Access denied"]
  ELSE [status |-> 200, error |-> ""]

\* userId check, projectAssessment.findUnique, 404 and ownership check
GenerateStart(r, userId, projectId) ==
  /\ Free(r)
  /\ LET fresh == [IdleSlot EXCEPT !.op = "generateQuote", !.userId = userId,
                                   !.projectId = projectId]
         project == FindProject(projectId)
         verdict == GenerateVerdict(userId, project)
     IN IF verdict.status # 200
          THEN /\ response' = Failure(fresh, verdict.status, verdict.error)
               /\ UNCHANGED req
          ELSE /\ req' = [req EXCEPT ![r] = [fresh EXCEPT !.pc = "g_findExisting",
                                               !.project = project]]
               /\ response' = NoResponse
  /\ UNCHANGED <<BASE_RATES, basePricing, otpVerifications, now, projects, quotes, auditLog>>

\* GenerateFindExisting that computes the score even when one is stored
GenerateFindExisting_Recomputes(r) ==
  /\ req[r].pc = "g_findExisting"
  /\ response = NoResponse
  /\ LET project == req[r].project
         score == calculateComplexity(project.projectType, project.projectScope,
                                      UrgencyOrStandard(project.urgency))
     IN IF ExistingQuote(req[r].projectId)
          THEN /\ response' = Failure(req[r], 400,
                                      "Active quote already exists for this project")
               /\ req' = [req EXCEPT ![r] = IdleSlot]
        ELSE /\ req' = [req EXCEPT ![r].complexityScore = score,
                          ![r].pc = IF project.complexityScore = NoScore
                                    THEN "g_saveScore" ELSE "g_create"]
             /\ response' = NoResponse
  /\ UNCHANGED <<BASE_RATES, basePricing, otpVerifications, now, projects, quotes, auditLog>>

\* projectQuote.findFirst for an active quote, then the complexity score
GenerateFindExisting(r) ==
  /\ req[r].pc = "g_findExisting"
  /\ response = NoResponse
  /\ LET project == req[r].project
         score == IF project.complexityScore # NoScore
                  THEN project.complexityScore
                  ELSE calculateComplexity(project.projectType, project.projectScope,
                                           UrgencyOrStandard(project.urgency))
     IN IF ExistingQuote(req[r].projectId)
          THEN /\ response' = Failure(req[r], 400,
                                      "Active quote already exists for this project")
               /\ req' = [req EXCEPT ![r] = IdleSlot]
        ELSE /\ req' = [req EXCEPT ![r].complexityScore = score,
                          ![r].pc = IF project.complexityScore = NoScore
                                    THEN "g_saveScore" ELSE "g_create"]
             /\ response' = NoResponse
  /\ UNCHANGED <<BASE_RATES, basePricing, otpVerifications, now, projects, quotes, auditLog>>

\* projectAssessment.update({ complexityScore }); the column is DECIMAL(3,2)
GenerateSaveScore(r) ==
  /\ req[r].pc = "g_saveScore"
  /\ response = NoResponse
  /\ IF req[r].complexityScore >= ScoreColumnLimit
       THEN /\ response' = Failure(req[r], 500, "numeric field overflow")
            /\ req' = [req EXCEPT ![r] = IdleSlot]
            /\ UNCHANGED projects
       ELSE /\ projects' = [projects EXCEPT ![req[r].projectId].complexityScore =
                                              req[r].complexityScore]
            /\ req' = [req EXCEPT ![r].pc = "g_create",
                                  ![r].writes = @ \cup {"project"}]
            /\ response' = NoResponse
  /\ UNCHANGED <<BASE_RATES, basePricing, otpVerifications, now, quotes, auditLog>>

\* The pricing computation and projectQuote.create
GenerateCreate(r) ==
  /\ req[r].pc = "g_create"
  /\ response = NoResponse
  /\ LET quote == NewQuote(Len(quotes) + 1, req[r].projectId, req[r].userId,
                           req[r].project, req[r].complexityScore, now)
     IN /\ quotes' = Append(quotes, quote)
        /\ req' = [req EXCEPT ![r].pc = "g_updateProject", ![r].updated = quote,
                              ![r].quoteId = quote.id,
                              ![r].writes = @ \cup {"quote"}]
  /\ response' = NoResponse
  /\ UNCHANGED <<BASE_RATES, basePricing, otpVerifications, now, projects, auditLog>>

\* GenerateUpdateProject that leaves the project's status as it is
GenerateUpdateProject_KeepsStatus(r) ==
  /\ req[r].pc = "g_updateProject"
  /\ response = NoResponse
  /\ req' = [req EXCEPT ![r].pc = "g_log", ![r].writes = @ \cup {"project"}]
  /\ response' = NoResponse
  /\ UNCHANGED <<BASE_RATES, basePricing, otpVerifications, now, projects, quotes, auditLog>>

\* projectAssessment.update({ status: 'quote_generated' })
GenerateUpdateProject(r) ==
  /\ req[r].pc = "g_updateProject"
  /\ response = NoResponse
  /\ projects' = [projects EXCEPT ![req[r].projectId].status = "quote_generated"]
  /\ req' = [req EXCEPT ![r].pc = "g_log", ![r].writes = @ \cup {"project"}]
  /\ response' = NoResponse
  /\ UNCHANGED <<BASE_RATES, basePricing, otpVerifications, now, quotes, auditLog>>

\* auditLog.create({ action: 'quote_generated' }) and the 200 response
GenerateLog(r) ==
  /\ req[r].pc = "g_log"
  /\ response = NoResponse
  /\ auditLog' = Append(auditLog, [userId |-> req[r].userId, action |-> "quote_generated",
                                   entityId |-> req[r].quoteId])
  /\ response' = Success([req[r] EXCEPT !.writes = @ \cup {"auditLog"}],
                         <<req[r].updated>>)
  /\ req' = [req EXCEPT ![r] = IdleSlot]
  /\ UNCHANGED <<BASE_RATES, basePricing, otpVerifications, now, projects, quotes>>

\* ------------------------------------------------------------ reads
\* prisma.projectQuote.findUnique({ where: { id } })
FindQuote(quoteId) == IF quoteId \in 1..Len(quotes) THEN quotes[quoteId] ELSE Null

\* projectQuote.findMany({ where: { userId }, orderBy: { createdAt: 'desc' } })
RECURSIVE QuotesOfUser(_, _)
QuotesOfUser(userId, n) ==
  IF n = 0 THEN <<>>
  ELSE IF quotes[n].userId = userId
       THEN <<quotes[n]>> \o QuotesOfUser(userId, n - 1)
       ELSE QuotesOfUser(userId, n - 1)

\* OwnerVerdict without the ownership check
OwnerVerdict_NoOwnership(userId, quote) ==
  IF userId = NoUser THEN [status |-> 401, error |-> "Unauthorized"]
  ELSE IF quote = Null THEN [status |-> 404, error |-> "Quote not found"]
  ELSE [status |-> 200, error |-> ""]

\* The checks getQuoteById and declineQuote make on the quote they read
OwnerVerdict(userId, quote) ==
  IF userId = NoUser THEN [status |-> 401, error |-> "Unauthorized"]
  ELSE IF quote = Null THEN [status |-> 404, error |-> "Quote not found"]
  ELSE IF quote.userId # userId THEN [status |-> 403, error |-> "Access denied"]
  ELSE [status |-> 200, error |-> ""]

\* getQuoteById: one read, then 401 / 404 / 403 / 200
GetQuoteById(r, userId, quoteId) ==
  /\ Free(r)
  /\ LET fresh == [IdleSlot EXCEPT !.op = "getQuoteById", !.userId = userId,
                                   !.quoteId = quoteId]
         quote == FindQuote(quoteId)
         verdict == OwnerVerdict(userId, quote)
     IN response' =
          IF verdict.status # 200 THEN Failure(fresh, verdict.status, verdict.error)
          ELSE Success([fresh EXCEPT !.quote = quote], <<quote>>)
  /\ UNCHANGED <<BASE_RATES, basePricing, otpVerifications, now, projects, quotes, auditLog, req>>

\* getUserQuotes: one read, then 401 / 200
GetUserQuotes(r, userId) ==
  /\ Free(r)
  /\ LET fresh == [IdleSlot EXCEPT !.op = "getUserQuotes", !.userId = userId]
     IN response' =
          IF userId = NoUser THEN Failure(fresh, 401, "Unauthorized")
          ELSE Success(fresh, QuotesOfUser(userId, Len(quotes)))
  /\ UNCHANGED <<BASE_RATES, basePricing, otpVerifications, now, projects, quotes, auditLog, req>>

\* --------------------------------------------------------- acceptQuote
\* AcceptVerdict that checks the status before the validity
AcceptVerdict_StatusFirst(userId, quote, t) ==
  IF userId = NoUser THEN [status |-> 401, error |-> "Unauthorized"]
  ELSE IF quote = Null THEN [status |-> 404, error |-> "Quote not found"]
  ELSE IF quote.userId # userId THEN [status |-> 403, error |-> "Access denied"]
  ELSE IF quote.status # "pending" /\ quote.status # "sent"
    THEN [status |-> 400, error |-> "Quote cannot be accepted"]
  ELSE IF t > quote.validUntil THEN [status |-> 400, error |-> "Quote has expired"]
  ELSE [status |-> 200, error |-> ""]

\* AcceptVerdict that refuses the expired status only
AcceptVerdict_RefusesExpiredOnly(userId, quote, t) ==
  IF userId = NoUser THEN [status |-> 401, error |-> "Unauthorized"]
  ELSE IF quote = Null THEN [status |-> 404, error |-> "Quote not found"]
  ELSE IF quote.userId # userId THEN [status |-> 403, error |-> "Access denied"]
  ELSE IF t > quote.validUntil THEN [status |-> 400, error |-> "Quote has expired"]
  ELSE IF quote.status = "expired"
    THEN [status |-> 400, error |-> "Quote cannot be accepted"]
  ELSE [status |-> 200, error |-> ""]

\* The checks acceptQuote makes on the quote it read, at time t
AcceptVerdict(userId, quote, t) ==
  IF userId = NoUser THEN [status |-> 401, error |-> "Unauthorized"]
  ELSE IF quote = Null THEN [status |-> 404, error |-> "Quote not found"]
  ELSE IF quote.userId # userId THEN [status |-> 403, error |-> "Access denied"]
  ELSE IF t > quote.validUntil THEN [status |-> 400, error |-> "Quote has expired"]
  ELSE IF quote.status # "pending" /\ quote.status # "sent"
    THEN [status |-> 400, error |-> "Quote cannot be accepted"]
  ELSE [status |-> 200, error |-> ""]

\* userId check, findUnique, 404, ownership, validity and status checks
AcceptStart(r, userId, quoteId) ==
  /\ Free(r)
  /\ LET quote == FindQuote(quoteId)
         fresh == [IdleSlot EXCEPT !.op = "acceptQuote", !.userId = userId,
                                   !.quoteId = quoteId, !.quote = quote,
                                   !.checkedAt = now]
         verdict == AcceptVerdict(userId, quote, now)
     IN IF verdict.status # 200
          THEN /\ response' = Failure(fresh, verdict.status, verdict.error)
               /\ UNCHANGED req
          ELSE /\ req' = [req EXCEPT ![r] = [fresh EXCEPT !.pc = "a_updateQuote"]]
               /\ response' = NoResponse
  /\ UNCHANGED <<BASE_RATES, basePricing, otpVerifications, now, projects, quotes, auditLog>>

\* AcceptUpdateQuote that also renews the quote's validity
AcceptUpdateQuote_RenewsValidity(r) ==
  /\ req[r].pc = "a_updateQuote"
  /\ response = NoResponse
  /\ quotes' = [quotes EXCEPT ![req[r].quoteId] =
                  [@ EXCEPT !.status = "accepted", !.termsAccepted = TRUE,
                            !.acceptedAt = now,
                            !.validUntil = DateOf(AddDays(now, ValidityDays))]]
  /\ req' = [req EXCEPT ![r].pc = "a_updateProject",
                        ![r].updated = quotes'[req[r].quoteId],
                        ![r].writes = @ \cup {"quote"}]
  /\ response' = NoResponse
  /\ UNCHANGED <<BASE_RATES, basePricing, otpVerifications, now, projects, auditLog>>

\* projectQuote.update({ status: 'accepted', termsAccepted, acceptedAt })
AcceptUpdateQuote(r) ==
  /\ req[r].pc = "a_updateQuote"
  /\ response = NoResponse
  /\ quotes' = [quotes EXCEPT ![req[r].quoteId] =
                  [@ EXCEPT !.status = "accepted", !.termsAccepted = TRUE,
                            !.acceptedAt = now]]
  /\ req' = [req EXCEPT ![r].pc = "a_updateProject",
                        ![r].updated = quotes'[req[r].quoteId],
                        ![r].writes = @ \cup {"quote"}]
  /\ response' = NoResponse
  /\ UNCHANGED <<BASE_RATES, basePricing, otpVerifications, now, projects, auditLog>>

\* projectAssessment.update({ status: 'quote_accepted' })
AcceptUpdateProject(r) ==
  /\ req[r].pc = "a_updateProject"
  /\ response = NoResponse
  /\ projects' = [projects EXCEPT ![req[r].quote.projectId].status = "quote_accepted"]
  /\ req' = [req EXCEPT ![r].pc = "a_log", ![r].writes = @ \cup {"project"}]
  /\ response' = NoResponse
  /\ UNCHANGED <<BASE_RATES, basePricing, otpVerifications, now, quotes, auditLog>>

\* auditLog.create({ action: 'quote_accepted' }) and the 200 response
AcceptLog(r) ==
  /\ req[r].pc = "a_log"
  /\ response = NoResponse
  /\ auditLog' = Append(auditLog, [userId |-> req[r].userId, action |-> "quote_accepted",
                                   entityId |-> req[r].quoteId])
  /\ response' = Success([req[r] EXCEPT !.writes = @ \cup {"auditLog"}],
                         <<req[r].updated>>)
  /\ req' = [req EXCEPT ![r] = IdleSlot]
  /\ UNCHANGED <<BASE_RATES, basePricing, otpVerifications, now, projects, quotes>>

\* -------------------------------------------------------- declineQuote
\* userId check, findUnique, 404 and ownership check
DeclineStart(r, userId, quoteId, reason) ==
  /\ Free(r)
  /\ LET quote == FindQuote(quoteId)
         fresh == [IdleSlot EXCEPT !.op = "declineQuote", !.userId = userId,
                                   !.quoteId = quoteId, !.reason = reason,
                                   !.quote = quote]
         verdict == OwnerVerdict(userId, quote)
     IN IF verdict.status # 200
          THEN /\ response' = Failure(fresh, verdict.status, verdict.error)
               /\ UNCHANGED req
          ELSE /\ req' = [req EXCEPT ![r] = [fresh EXCEPT !.pc = "d_updateQuote"]]
               /\ response' = NoResponse
  /\ UNCHANGED <<BASE_RATES, basePricing, otpVerifications, now, projects, quotes, auditLog>>

\* DeclineUpdateQuote that writes a fresh metadata object
DeclineUpdateQuote_FreshMetadata(r) ==
  /\ req[r].pc = "d_updateQuote"
  /\ response = NoResponse
  /\ quotes' = [quotes EXCEPT ![req[r].quoteId] =
                  [@ EXCEPT !.status = "declined",
                            !.metadata = [declineReason |-> req[r].reason,
                                          declinedAt |-> now,
                                          source |-> NoText]]]
  /\ req' = [req EXCEPT ![r].pc = "d_log",
                        ![r].updated = quotes'[req[r].quoteId],
                        ![r].writes = @ \cup {"quote"}]
  /\ response' = NoResponse
  /\ UNCHANGED <<BASE_RATES, basePricing, otpVerifications, now, projects, auditLog>>

\* projectQuote.update({ status: 'declined', metadata: { ...old, declineReason, declinedAt } })
DeclineUpdateQuote(r) ==
  /\ req[r].pc = "d_updateQuote"
  /\ response = NoResponse
  /\ quotes' = [quotes EXCEPT ![req[r].quoteId] =
                  [@ EXCEPT !.status = "declined",
                            !.metadata = [req[r].quote.metadata EXCEPT
                                            !.declineReason = req[r].reason,
                                            !.declinedAt = now]]]
  /\ req' = [req EXCEPT ![r].pc = "d_log",
                        ![r].updated = quotes'[req[r].quoteId],
                        ![r].writes = @ \cup {"quote"}]
  /\ response' = NoResponse
  /\ UNCHANGED <<BASE_RATES, basePricing, otpVerifications, now, projects, auditLog>>

\* auditLog.create({ action: 'quote_declined' }) and the 200 response
DeclineLog(r) ==
  /\ req[r].pc = "d_log"
  /\ response = NoResponse
  /\ auditLog' = Append(auditLog, [userId |-> req[r].userId, action |-> "quote_declined",
                                   entityId |-> req[r].quoteId])
  /\ response' = Success([req[r] EXCEPT !.writes = @ \cup {"auditLog"}],
                         <<req[r].updated>>)
  /\ req' = [req EXCEPT ![r] = IdleSlot]
  /\ UNCHANGED <<BASE_RATES, basePricing, otpVerifications, now, projects, quotes>>

\* ------------------------------------------------------------- response
\* The response written by res.json leaves the server
SendResponse ==
  /\ response # NoResponse
  /\ response' = NoResponse
  /\ UNCHANGED <<BASE_RATES, basePricing, otpVerifications, now, projects, quotes, auditLog, req>>

\* ---------------------------------------------------------------- clock
\* Time passes between two steps
Advance(t) ==
  /\ response = NoResponse
  /\ t > now
  /\ now' = t
  /\ response' = NoResponse
  /\ UNCHANGED <<BASE_RATES, basePricing, otpVerifications, projects, quotes, auditLog, req>>

\* ------------------------------------------------------- bundle pricing
\* Bundle prices are held in cents; scale multipliers and complexity-tier
\* multipliers are held in hundredths (the DECIMAL(5,2) columns), so 1.35 is
\* 135.  The amounts the service derives from a base price are held, until
\* they are rounded, as shares of that price in ten-thousandths.  A text is
\* held as the sequence of its characters.
UpperCase ==
  <<"A", "B", "C", "D", "E", "F", "G", "H", "I", "J", "K", "L", "M",
    "N", "O", "P", "Q", "R", "S", "T", "U", "V", "W", "X", "Y", "Z">>

LowerCase ==
  <<"a", "b", "c", "d", "e", "f", "g", "h", "i", "j", "k", "l", "m",
    "n", "o", "p", "q", "r", "s", "t", "u", "v", "w", "x", "y", "z">>

\* The lower-case form of one character
toLowerCase(c) ==
  IF \E i \in 1..Len(UpperCase) : UpperCase[i] = c
  THEN LowerCase[CHOOSE i \in 1..Len(UpperCase) : UpperCase[i] = c]
  ELSE c

\* The upper-case form of one character
toUpperCase(c) ==
  IF \E i \in 1..Len(LowerCase) : LowerCase[i] = c
  THEN UpperCase[CHOOSE i \in 1..Len(LowerCase) : LowerCase[i] = c]
  ELSE c

\* The lower-case form of a text
Lowered(text) == [i \in 1..Len(text) |-> toLowerCase(text[i])]

\* { equals: key, mode: 'insensitive' }
InsensitiveEquals(a, b) == Lowered(a) = Lowered(b)

\* The texts that differ from text in the letter case of its first k characters
RECURSIVE CaseVariants(_, _)
CaseVariants(text, k) ==
  IF text = <<>> \/ k = 0 THEN {text}
  ELSE {<<c>> \o v : c \in {toLowerCase(Head(text)), toUpperCase(Head(text))},
                     v \in CaseVariants(Tail(text), k - 1)}

DefaultComplexityRating == 5
DefaultTierMultiplier == 100

NoKey == <<>>
NoBundle == ""
NoRating == 0
NoPrice == -1

\* Rows of revenue_categories, as seeded
RevenueCategories ==
  {[id |-> "category_saas",
    name |-> <<"S", "a", "a", "S">>,
    code |-> <<"s", "a", "a", "s">>],
   [id |-> "category_ecommerce",
    name |-> <<"E", "-", "C", "o", "m", "m", "e", "r", "c", "e">>,
    code |-> <<"e", "c", "o", "m", "m", "e", "r", "c", "e">>]}

\* Rows of company_scales, as seeded
CompanyScales ==
  {[id |-> "scale_medium_10m",
    name |-> <<"M", "e", "d", "i", "u", "m", " ", "(", "$", "1", "M", " ",
               "-", " ", "$", "1", "0", "M", ")">>,
    code |-> <<"m", "e", "d", "i", "u", "m", "_", "1", "0", "m">>,
    multiplier |-> 150],
   [id |-> "scale_large_50m",
    name |-> <<"L", "a", "r", "g", "e", " ", "(", "$", "1", "0", "M", " ",
               "-", " ", "$", "5", "0", "M", ")">>,
    code |-> <<"l", "a", "r", "g", "e", "_", "5", "0", "m">>,
    multiplier |-> 200]}

\* Rows of complexity_tiers, as seeded: adjustment multiplier by rating
ComplexityTiers ==
  [rating \in 1..10 |->
     CASE rating = 1 -> 70 [] rating = 2 -> 85 [] rating = 3 -> 95
       [] rating = 4 -> 100 [] rating = 5 -> 110 [] rating = 6 -> 120
       [] rating = 7 -> 135 [] rating = 8 -> 150 [] rating = 9 -> 175
       [] rating = 10 -> 200]

\* The seeded bundles and their list prices
Bundles == [bundle_saas_starter |-> 500000, bundle_saas_pro |-> 1200000]

\* The keys of base_pricing: (bundle id, revenue category id, company scale id)
Triples ==
  {<<b, c.id, sc.id>> : b \in DOMAIN Bundles, c \in RevenueCategories, sc \in CompanyScales}

\* base_pricing as seeded: the list price times the scale's multiplier
SeededBasePricing ==
  [t \in Triples |->
     (Bundles[t[1]] * (CHOOSE sc \in CompanyScales : sc.id = t[3]).multiplier) \div 100]

\* The whole numbers Math.round can give for the rational n/d: the nearest
\* one, and for an exact half either neighbour, as the doubles that hold the
\* value fall on either side of the half
RoundedHalf(n, d) ==
  IF 2 * (n % d) = d THEN {n \div d, (n \div d) + 1}
  ELSE IF 2 * (n % d) > d THEN {(n \div d) + 1}
  ELSE {n \div d}

\* Math.round(x * 100) / 100 for x = base * share / 10000, base in cents and
\* share in ten-thousandths: the cent amounts it can give
RoundedToCents(base, share) ==
  {(base \div 10000) * share + rest : rest \in RoundedHalf((base % 10000) * share, 10000)}

\* base * (scaleMultiplier - 1), as a share of base in ten-thousandths
ScaleAdjustment(scaleMultiplier) == (scaleMultiplier - 100) * 100

\* ComplexityAdjustmentValue taken against the base price alone
ComplexityAdjustmentValue_AgainstBase(scaleMultiplier, complexityMultiplier) ==
  100 * (complexityMultiplier - 100)

\* (base + scaleAdjustment) * (complexityMultiplier - 1), as a share of base
\* in ten-thousandths
ComplexityAdjustmentValue(scaleMultiplier, complexityMultiplier) ==
  ((10000 + ScaleAdjustment(scaleMultiplier)) * (complexityMultiplier - 100)) \div 100

\* FinalPrice that leaves the scale adjustment out of the sum
FinalPrice_WithoutScaleAdjustment(scaleMultiplier, complexityMultiplier) ==
  10000 + ComplexityAdjustmentValue(scaleMultiplier, complexityMultiplier)

\* base + scaleAdjustment + complexityAdjustmentValue, as a share of base in
\* ten-thousandths
FinalPrice(scaleMultiplier, complexityMultiplier) ==
  10000 + ScaleAdjustment(scaleMultiplier)
  + ComplexityAdjustmentValue(scaleMultiplier, complexityMultiplier)

\* revenueCategory.findFirst({ OR: [{ code }, { name: insensitive }] })
FindCategory(key) ==
  {c \in RevenueCategories : c.code = key \/ InsensitiveEquals(c.name, key)}

\* companyScale.findFirst({ OR: [{ code }, { name: insensitive }] })
FindScale(key) ==
  {sc \in CompanyScales : sc.code = key \/ InsensitiveEquals(sc.name, key)}

\* basePricing.findFirst({ bundleId, revenueCategoryId, companyScaleId })
FindBasePricing(bundleId, revenueCategoryId, companyScaleId) ==
  IF <<bundleId, revenueCategoryId, companyScaleId>> \in DOMAIN basePricing
  THEN basePricing[<<bundleId, revenueCategoryId, companyScaleId>>]
  ELSE NoPrice

\* TierMultiplier that treats a missing tier as the default rating's tier
TierMultiplier_DefaultTier(complexityRating) ==
  IF complexityRating \in DOMAIN ComplexityTiers
  THEN ComplexityTiers[complexityRating] ELSE ComplexityTiers[DefaultComplexityRating]

\* complexityTier ? Number(complexityTier.adjustmentMultiplier) : 1.0
TierMultiplier(complexityRating) ==
  IF complexityRating \in DOMAIN ComplexityTiers
  THEN ComplexityTiers[complexityRating] ELSE DefaultTierMultiplier

\* POST /api/pricing/calculate: the required fields, then the service call
CalcStart(r, bundleId, revenueCategory, companyRevenueScale, complexityRating) ==
  /\ Free(r)
  /\ LET fresh ==
           [IdleSlot EXCEPT
              !.op = "calculatePricing",
              !.pricing = [bundleId |-> bundleId,
                           revenueCategory |-> revenueCategory,
                           companyRevenueScale |-> companyRevenueScale,
                           complexityRating |-> complexityRating,
                           complexityRatingValue |->
                             IF complexityRating = NoRating
                             THEN DefaultComplexityRating ELSE complexityRating,
                           revCategory |-> Null, scale |-> Null,
                           basePrice |-> NoPrice]]
     IN IF bundleId = NoBundle \/ revenueCategory = NoKey \/ companyRevenueScale = NoKey
          THEN /\ response' =
                    Failure(fresh, 400,
                            "bundleId, revenueCategory, and companyRevenueScale are required")
               /\ UNCHANGED req
          ELSE /\ req' = [req EXCEPT ![r] = [fresh EXCEPT !.pc = "c_findCategory"]]
               /\ response' = NoResponse
  /\ UNCHANGED <<BASE_RATES, basePricing, otpVerifications, now, projects, quotes, auditLog>>

\* The revenue category look-up; a miss is thrown and answered by the catch
CalcFindCategory(r) ==
  /\ req[r].pc = "c_findCategory"
  /\ response = NoResponse
  /\ LET found == FindCategory(req[r].pricing.revenueCategory)
     IN IF found = {}
          THEN /\ response' = Failure(req[r], 500, "Revenue category not found")
               /\ req' = [req EXCEPT ![r] = IdleSlot]
          ELSE /\ \E revCategory \in found :
                    req' = [req EXCEPT ![r].pricing.revCategory = revCategory,
                                       ![r].pc = "c_findScale"]
               /\ response' = NoResponse
  /\ UNCHANGED <<BASE_RATES, basePricing, otpVerifications, now, projects, quotes, auditLog>>

\* The company scale look-up; a miss is thrown and answered by the catch
CalcFindScale(r) ==
  /\ req[r].pc = "c_findScale"
  /\ response = NoResponse
  /\ LET found == FindScale(req[r].pricing.companyRevenueScale)
     IN IF found = {}
          THEN /\ response' = Failure(req[r], 500, "Company scale not found")
               /\ req' = [req EXCEPT ![r] = IdleSlot]
          ELSE /\ \E scale \in found :
                    req' = [req EXCEPT ![r].pricing.scale = scale,
                                       ![r].pc = "c_findBasePricing"]
               /\ response' = NoResponse
  /\ UNCHANGED <<BASE_RATES, basePricing, otpVerifications, now, projects, quotes, auditLog>>

\* The base price look-up; a miss is thrown and answered by the catch
CalcFindBasePricing(r) ==
  /\ req[r].pc = "c_findBasePricing"
  /\ response = NoResponse
  /\ LET basePrice == FindBasePricing(req[r].pricing.bundleId,
                                      req[r].pricing.revCategory.id,
                                      req[r].pricing.scale.id)
     IN IF basePrice = NoPrice
          THEN /\ response' = Failure(req[r], 500, "No pricing found")
               /\ req' = [req EXCEPT ![r] = IdleSlot]
          ELSE /\ req' = [req EXCEPT ![r].pricing.basePrice = basePrice,
                                     ![r].pc = "c_findTier"]
               /\ response' = NoResponse
  /\ UNCHANGED <<BASE_RATES, basePricing, otpVerifications, now, projects, quotes, auditLog>>

\* The complexity tier look-up, the computation and the 200 response
CalcFindTier(r) ==
  /\ req[r].pc = "c_findTier"
  /\ response = NoResponse
  /\ LET base == req[r].pricing.basePrice
         scaleMultiplier == req[r].pricing.scale.multiplier
         complexityMultiplier == TierMultiplier(req[r].pricing.complexityRatingValue)
         scaleAdjustment == ScaleAdjustment(scaleMultiplier)
         complexityAdjustmentValue ==
           ComplexityAdjustmentValue(scaleMultiplier, complexityMultiplier)
         finalPrice == FinalPrice(scaleMultiplier, complexityMultiplier)
     IN \E roundedFinal \in RoundedToCents(base, finalPrice),
           roundedScale \in RoundedToCents(base, scaleAdjustment),
           roundedComplexity \in RoundedToCents(base, complexityAdjustmentValue) :
          response' =
            Success(req[r],
                    <<[basePricing |-> base,
                       scaleMultiplier |-> scaleMultiplier,
                       complexityAdjustment |-> complexityMultiplier,
                       finalPrice |-> roundedFinal,
                       breakdown |-> [base |-> base,
                                      scaleAdjustment |-> roundedScale,
                                      complexityAdjustment |-> roundedComplexity]]>>)
  /\ req' = [req EXCEPT ![r] = IdleSlot]
  /\ UNCHANGED <<BASE_RATES, basePricing, otpVerifications, now, projects, quotes, auditLog>>

\* ------------------------------------------------------------ verifyOTP
Phones == {"+15550100", "+15550101"}
Codes == {"123456", "654321"}

\* The value an async service function resolves to
Returned(request, value) ==
  [status |-> 0, error |-> "", body |-> <<value>>, request |-> request]

\* otpVerification.findFirst({ where: { destination, otpCode, verified: false,
\* expiresAt: { gte: new Date() } }, orderBy: { createdAt: 'desc' } }):
\* the ids of the rows that match at time t
MatchingOtps(phoneNumber, otpCode, t) ==
  {id \in 1..Len(otpVerifications) :
     /\ otpVerifications[id].destination = phoneNumber
     /\ otpVerifications[id].otpCode = otpCode
     /\ ~otpVerifications[id].verified
     /\ otpVerifications[id].expiresAt >= t}

\* The newest of the given rows
Newest(ids) == CHOOSE id \in ids : \A other \in ids : other <= id

\* verifyOTP up to its first await: findFirst, and false when no row matches
VerifyFind(r, phoneNumber, otpCode) ==
  /\ Free(r)
  /\ LET fresh == [IdleSlot EXCEPT !.op = "verifyOTP", !.checkedAt = now,
                                   !.otp = [phoneNumber |-> phoneNumber,
                                            otpCode |-> otpCode, otpRecord |-> 0]]
         found == MatchingOtps(phoneNumber, otpCode, now)
     IN IF found = {}
          THEN /\ response' = Returned(fresh, FALSE)
               /\ UNCHANGED req
          ELSE /\ req' = [req EXCEPT ![r] = [fresh EXCEPT !.pc = "o_update",
                                               !.otp.otpRecord = Newest(found)]]
               /\ response' = NoResponse
  /\ UNCHANGED <<BASE_RATES, basePricing, otpVerifications, now, projects, quotes, auditLog>>

\* otpVerification.update({ where: { id }, data: { verified: true } }), return true
VerifyUpdate(r) ==
  /\ req[r].pc = "o_update"
  /\ response = NoResponse
  /\ otpVerifications' =
       [otpVerifications EXCEPT ![req[r].otp.otpRecord].verified = TRUE]
  /\ response' = Returned(req[r], TRUE)
  /\ req' = [req EXCEPT ![r] = IdleSlot]
  /\ UNCHANGED <<BASE_RATES, basePricing, now, projects, quotes, auditLog>>

\* ------------------------------------------------------- specification
\* scope with the given numbers of features and integrations
ScopeOf(features, complexIntegrations, otherIntegrations, timeline) ==
  [features |-> [i \in 1..features |-> [name |-> "feature"]],
   integrations |->
     [i \in 1..complexIntegrations |->
        [type |-> ComplexIntegrationTypes[((i - 1) % Len(ComplexIntegrationTypes)) + 1]]]
     \o [i \in 1..otherIntegrations |-> [type |-> "analytics"]],
   timeline |-> timeline]

\* A scope of 4 features and 2 payment integrations, with no timeline
PaymentScope ==
  [ScopeOf(4, 0, 0, NoTimeline) EXCEPT
     !.integrations = <<[type |-> "payment"], [type |-> "payment"]>>]

\* A project_assessments row
Project(userId, projectType, projectScope, urgency, complexityScore, status) ==
  [userId |-> userId, projectType |-> projectType, projectScope |-> projectScope,
   urgency |-> urgency, complexityScore |-> complexityScore, status |-> status]

\* A quote already stored for project p2 when the service starts
StoredQuote(project, status) ==
  [NewQuote(1, "p2", project.userId, project, project.complexityScore, 0) EXCEPT
     !.status = status,
     !.termsAccepted = (status = "accepted"),
     !.acceptedAt = IF status = "accepted" THEN 0 ELSE NoTime,
     !.metadata = [@ EXCEPT !.source = "sales"]]

\* Two users with one project each; p2 already has a quote in some status
Init ==
  /\ BASE_RATES = DefaultRates
  /\ basePricing = SeededBasePricing
  /\ now = 0
  /\ \E status \in QuoteStatus :
       LET p2 == Project("u2", "creative", Null, NoUrgency, 300,
                         IF status = "accepted" THEN "quote_accepted"
                         ELSE "quote_generated")
       IN /\ projects =
               [p \in ProjectIds |->
                  IF p = "p1"
                  THEN Project("u1", "fullstack", PaymentScope,
                               "urgent", NoScore, "assessment_complete")
                  ELSE p2]
          /\ quotes = <<StoredQuote(p2, status)>>
  /\ auditLog = <<>>
  /\ otpVerifications = <<>>
  /\ req = [r \in Slots |-> IdleSlot]
  /\ response = NoResponse

Next ==
  \/ \E r \in Slots, u \in Users \cup {NoUser}, p \in ProjectIds \cup {MissingProject} :
       GenerateStart(r, u, p)
  \/ \E r \in Slots : GenerateFindExisting(r)
  \/ \E r \in Slots : GenerateSaveScore(r)
  \/ \E r \in Slots : GenerateCreate(r)
  \/ \E r \in Slots : GenerateUpdateProject(r)
  \/ \E r \in Slots : GenerateLog(r)
  \/ \E r \in Slots, u \in Users \cup {NoUser}, q \in 1..(Len(quotes) + 1) :
       GetQuoteById(r, u, q)
  \/ \E r \in Slots, u \in Users \cup {NoUser} : GetUserQuotes(r, u)
  \/ \E r \in Slots, u \in Users \cup {NoUser}, q \in 1..(Len(quotes) + 1) :
       AcceptStart(r, u, q)
  \/ \E r \in Slots : AcceptUpdateQuote(r)
  \/ \E r \in Slots : AcceptUpdateProject(r)
  \/ \E r \in Slots : AcceptLog(r)
  \/ \E r \in Slots, u \in Users \cup {NoUser}, q \in 1..(Len(quotes) + 1),
        reason \in Reasons : DeclineStart(r, u, q, reason)
  \/ \E r \in Slots : DeclineUpdateQuote(r)
  \/ \E r \in Slots : DeclineLog(r)
  \/ SendResponse
  \/ \E t \in Instants : Advance(t)

Spec == Init /\ [][Next]_vars


\* The complexity scores a project may already store, around the level thresholds
StoredScores == {0, 299, 300, 599, 600, 799, 800, 999}

\* Scopes that lack the features list, the integrations list, or both
PartialScopes ==
  {[timeline |-> "urgent"],
   [features |-> ScopeOf(2, 0, 0, NoTimeline).features, timeline |-> NoTimeline],
   [integrations |-> ScopeOf(0, 2, 1, NoTimeline).integrations, timeline |-> "critical"]}

\* The scopes a project may have
Scopes ==
  {Null} \cup PartialScopes \cup
  {ScopeOf(f, c, o, tl) :
     f \in 0..MaxFeatures, c \in 0..MaxComplexIntegrations,
     o \in 0..MaxOtherIntegrations,
     tl \in {NoTimeline, "standard", "urgent", "critical"}}

\* One project of any type, scope, urgency and stored score, under any rate
\* configuration, and no quote yet
InitCalc ==
  /\ BASE_RATES \in RateConfigs
  /\ basePricing = SeededBasePricing
  /\ now = 1
  /\ \E projectType \in ProjectType, urgency \in Urgency \cup {NoUrgency},
        input \in (Scopes \X {NoScore}) \cup ({Null} \X StoredScores) :
       projects =
         [p \in ProjectIds |->
            IF p = "p1"
            THEN Project("u1", projectType, input[1], urgency, input[2],
                         "assessment_complete")
            ELSE Project("u2", "creative", Null, NoUrgency, 300, "assessment_complete")]
  /\ quotes = <<>>
  /\ auditLog = <<>>
  /\ otpVerifications = <<>>
  /\ req = [r \in Slots |-> IdleSlot]
  /\ response = NoResponse

\* Quotes are generated and declined one request at a time
NextCalc ==
  \/ \E u \in Users, p \in ProjectIds : GenerateStart(1, u, p)
  \/ GenerateFindExisting(1)
  \/ GenerateSaveScore(1)
  \/ GenerateCreate(1)
  \/ GenerateUpdateProject(1)
  \/ GenerateLog(1)
  \/ \E u \in Users, q \in 1..Len(quotes), reason \in Reasons : DeclineStart(1, u, q, reason)
  \/ DeclineUpdateQuote(1)
  \/ DeclineLog(1)
  \/ SendResponse

SpecCalc == InitCalc /\ [][NextCalc]_vars


\* A key that is neither a code nor a name
UnknownKey == <<"o", "t", "h", "e", "r">>

\* The revenue category keys a request may carry
CategoryKeys ==
  UNION {CaseVariants(c.code, MaxVariantChars) \cup CaseVariants(c.name, MaxVariantChars) :
           c \in RevenueCategories}
  \cup {UnknownKey, NoKey}

\* The company scale keys a request may carry
ScaleKeys ==
  UNION {CaseVariants(sc.code, MaxVariantChars) \cup CaseVariants(sc.name, MaxVariantChars) :
           sc \in CompanyScales}
  \cup {UnknownKey, NoKey}

\* The bundle ids a request may carry
BundleIds == DOMAIN Bundles \cup {"bundle_unknown", NoBundle}

\* The complexity ratings a request may carry
Ratings == {NoRating, 1, 7, 11}

\* Base prices a row may hold: 5000.00 and 10.10
BasePrices == {500000, 1010}

\* A triple that may have no row
MissingTriple == <<"bundle_saas_pro", "category_ecommerce", "scale_large_50m">>

\* The contents base_pricing may have
PricingTables ==
  {SeededBasePricing}
  \cup {[t \in Triples \ missing |-> price] :
          price \in BasePrices, missing \in {{}, {MissingTriple}}}

\* The pricing tables are filled, and no project has a quote
InitBundle ==
  /\ BASE_RATES = DefaultRates
  /\ basePricing \in PricingTables
  /\ now = 0
  /\ projects =
       [p \in ProjectIds |->
          IF p = "p1"
          THEN Project("u1", "fullstack", PaymentScope, "urgent", NoScore,
                       "assessment_complete")
          ELSE Project("u2", "creative", Null, NoUrgency, 300, "assessment_complete")]
  /\ quotes = <<>>
  /\ auditLog = <<>>
  /\ otpVerifications = <<>>
  /\ req = [r \in Slots |-> IdleSlot]
  /\ response = NoResponse

\* Bundle prices are calculated one request at a time
NextBundle ==
  \/ /\ Free(1)
     /\ \E bundleId \in BundleIds, revenueCategory \in CategoryKeys,
           companyRevenueScale \in ScaleKeys, complexityRating \in Ratings :
          CalcStart(1, bundleId, revenueCategory, companyRevenueScale, complexityRating)
  \/ CalcFindCategory(1)
  \/ CalcFindScale(1)
  \/ CalcFindBasePricing(1)
  \/ CalcFindTier(1)
  \/ SendResponse

SpecBundle == InitBundle /\ [][NextBundle]_vars

\* The instants at which a stored code expires
Expiries == {0, 1, ValidityDays * TicksPerDay}

\* A row of otp_verifications as sendWhatsAppOTP creates it, verified or not
OtpRows ==
  [userId : {"u1"}, otpType : {"whatsapp"}, otpCode : Codes,
   destination : {"+15550100"}, expiresAt : Expiries, verified : BOOLEAN]

\* Two codes have been sent to one phone number
InitOtp ==
  /\ BASE_RATES = DefaultRates
  /\ basePricing = SeededBasePricing
  /\ now = 0
  /\ projects =
       [p \in ProjectIds |->
          IF p = "p1"
          THEN Project("u1", "fullstack", PaymentScope, "urgent", NoScore,
                       "assessment_complete")
          ELSE Project("u2", "creative", Null, NoUrgency, 300, "assessment_complete")]
  /\ quotes = <<>>
  /\ auditLog = <<>>
  /\ otpVerifications \in [1..2 -> OtpRows]
  /\ req = [r \in Slots |-> IdleSlot]
  /\ response = NoResponse

\* Codes are verified by concurrent calls while time passes
NextOtp ==
  \/ \E r \in Slots, phoneNumber \in Phones, otpCode \in Codes :
       VerifyFind(r, phoneNumber, otpCode)
  \/ \E r \in Slots : VerifyUpdate(r)
  \/ SendResponse
  \/ \E t \in Instants : Advance(t)

SpecOtp == InitOtp /\ [][NextOtp]_vars

\* ------------------------------------------------------------------ claims
\* The quotes of a project that are pending, sent or accepted
ActiveQuotesOf(projectId) ==
  {i \in 1..Len(quotes) :
     quotes[i].projectId = projectId
     /\ quotes[i].status \in {"pending", "sent", "accepted"}}

\* C1: in every reachable state, whatever the interleaving of concurrent
\* generateQuote requests for one project, each project has at most one quote
\* whose status is pending, sent or accepted.
C1_AtMostOneActiveQuote ==
  \A p \in ProjectIds : Cardinality(ActiveQuotesOf(p)) <= 1


\* C2: every generated quote, of every project type, complexity level and
\* urgency, has notToExceed = ceil(totalEstimate x 1.15), the least whole
\* number of currency units that is at least 1.15 x totalEstimate, and
\* notToExceed >= totalEstimate (checked under the default rate table and
\* under an overridden one).
C2_NotToExceedIsCeiling ==
  \A i \in 1..Len(quotes) :
     LET q == quotes[i]
     IN /\ q.notToExceed % 100 = 0
        /\ 100 * q.notToExceed >= 115 * q.totalEstimate
        /\ 100 * (q.notToExceed - 100) < 115 * q.totalEstimate
        /\ q.notToExceed >= q.totalEstimate

C2_Witness ==
  /\ BASE_RATES = DefaultRates
  /\ Len(quotes) > 0
  /\ quotes[1].notToExceed > quotes[1].totalEstimate

\* C3: an acceptQuote by the quote's owner that reads the clock after the
\* quote's validUntil answers 400 "Quote has expired", whatever the quote's
\* status, and writes neither the quote nor its project.
C3_ExpiredAlwaysRejected ==
  [][(/\ response = NoResponse
      /\ response' # NoResponse
      /\ response'.request.op = "acceptQuote"
      /\ response'.request.quote # Null
      /\ response'.request.userId = response'.request.quote.userId
      /\ response'.request.checkedAt > response'.request.quote.validUntil)
     => (/\ response'.status = 400
         /\ response'.error = "Quote has expired"
         /\ response'.request.writes = {}
         /\ UNCHANGED <<quotes, projects>>)]_vars

C3_Witness ==
  /\ response.request.op = "acceptQuote"
  /\ response.error = "Quote has expired"
  /\ response.request.quote.status = "accepted"

\* C4: acceptQuote goes on to its writes only when the requester owns the
\* quote, now <= validUntil and the status read is pending or sent; its
\* update sets status accepted, termsAccepted true and acceptedAt, and then
\* the owning project's status quote_accepted; a 200 comes from that path
\* only; for an owner in time, a status of accepted, declined or expired is
\* answered 400 "Quote cannot be accepted" and nothing is written.
C4_AcceptOnlyFromPendingOrSent ==
  [][/\ \A r \in Slots :
          /\ (req[r].pc = "idle" /\ req'[r].pc = "a_updateQuote")
             => LET q == quotes[req'[r].quoteId]
                IN /\ q.userId = req'[r].userId
                   /\ now <= q.validUntil
                   /\ q.status \in {"pending", "sent"}
          /\ (req[r].pc = "a_updateQuote" /\ req'[r].pc # "a_updateQuote")
             => LET q == quotes'[req[r].quoteId]
                IN /\ q.status = "accepted"
                   /\ q.termsAccepted
                   /\ q.acceptedAt = now
                   /\ req'[r].pc = "a_updateProject"
          /\ (req[r].pc = "a_updateProject" /\ req'[r].pc # "a_updateProject")
             => /\ projects'[quotes[req[r].quoteId].projectId].status = "quote_accepted"
                /\ req'[r].pc = "a_log"
     /\ (/\ response = NoResponse
         /\ response'.request.op = "acceptQuote"
         /\ response'.status = 200)
        => /\ \E r \in Slots : req[r].pc = "a_log" /\ req'[r].pc = "idle"
           /\ response'.body[1].status = "accepted"
           /\ response'.body[1].termsAccepted
           /\ response'.body[1].acceptedAt # NoTime
     /\ (/\ response = NoResponse
         /\ response'.request.op = "acceptQuote"
         /\ response'.request.quote # Null
         /\ response'.request.userId = response'.request.quote.userId
         /\ response'.request.checkedAt <= response'.request.quote.validUntil
         /\ response'.request.quote.status \in {"accepted", "declined", "expired"})
        => /\ response'.status = 400
           /\ response'.error = "Quote cannot be accepted"
           /\ response'.request.writes = {}
           /\ UNCHANGED <<quotes, projects, auditLog>>]_vars

C4_Witness ==
  /\ response.request.op = "acceptQuote"
  /\ response.status = 200
  /\ response.request.quote.status = "sent"
  /\ projects[response.request.quote.projectId].status = "quote_accepted"

\* C5: once a quote's status is accepted or expired, no step changes it (a
\* declineQuote moves a quote to declined from pending or sent only).
C5_TerminalStatusKept ==
  [][\A i \in 1..Len(quotes) :
        quotes[i].status \in {"accepted", "expired"}
        => quotes'[i].status = quotes[i].status]_vars

\* C6: a generateQuote whose look-up finds a pending, sent or accepted quote
\* of the project answers 400 "Active quote already exists for this project",
\* creates no quote, leaves the project's status and complexity score as they
\* are and writes no audit-log entry.
C6_DuplicateActiveQuoteRejected ==
  [][\A r \in Slots :
        (/\ req[r].pc = "g_findExisting"
         /\ req'[r].pc # "g_findExisting"
         /\ ActiveQuotesOf(req[r].projectId) # {})
        => (/\ response'.request.op = "generateQuote"
            /\ response'.status = 400
            /\ response'.error = "Active quote already exists for this project"
            /\ response'.request.writes = {}
            /\ UNCHANGED <<quotes, projects, auditLog>>)]_vars

C6_Witness ==
  /\ response.request.op = "generateQuote"
  /\ response.status = 400
  /\ ActiveQuotesOf(response.request.projectId) # {}

\* C7: getQuoteById, acceptQuote and declineQuote by a user who is not the
\* owner of an existing quote answer 403 with no quote data and write nothing;
\* getUserQuotes returns exactly the requester's quotes.
C7_OwnershipScoped ==
  [][(response = NoResponse /\ response' # NoResponse)
     => LET rq == response'.request
        IN /\ (/\ rq.op \in {"getQuoteById", "acceptQuote", "declineQuote"}
               /\ rq.userId \in Users
               /\ rq.quoteId \in 1..Len(quotes)
               /\ quotes[rq.quoteId].userId # rq.userId)
              => (/\ response'.status = 403
                  /\ response'.body = <<>>
                  /\ rq.writes = {}
                  /\ UNCHANGED <<quotes, projects, auditLog>>)
           /\ (rq.op = "getUserQuotes" /\ response'.status = 200)
              => (/\ \A i \in 1..Len(response'.body) :
                        response'.body[i].userId = rq.userId
                  /\ Len(response'.body) =
                       Cardinality({i \in 1..Len(quotes) : quotes[i].userId = rq.userId}))]_vars

C7_Witness ==
  /\ response.request.op = "declineQuote"
  /\ response.status = 403
  /\ response.request.quoteId \in 1..Len(quotes)
  /\ quotes[response.request.quoteId].userId # response.request.userId

\* The four installments of a quote, added up
InstallmentSum(q) ==
  q.paymentStructure.deposit + q.paymentStructure.milestone_1
  + q.paymentStructure.milestone_2 + q.paymentStructure.final

\* C8 as stated: the four installments of every generated quote sum to within
\* 1 currency unit of totalEstimate.
C8_SumWithinOneUnit ==
  \A i \in 1..Len(quotes) :
     /\ InstallmentSum(quotes[i]) - quotes[i].totalEstimate <= 100
     /\ quotes[i].totalEstimate - InstallmentSum(quotes[i]) <= 100

\* C8 as amended: the four installments of every generated quote sum to a
\* value that differs from totalEstimate by less than 2 currency units, and
\* to totalEstimate itself under the default rate table.
C8_SumWithinTwoUnits ==
  \A i \in 1..Len(quotes) :
     /\ InstallmentSum(quotes[i]) - quotes[i].totalEstimate < 200
     /\ quotes[i].totalEstimate - InstallmentSum(quotes[i]) < 200
     /\ BASE_RATES = DefaultRates
        => InstallmentSum(quotes[i]) = quotes[i].totalEstimate

C8_Witness ==
  \E i \in 1..Len(quotes) :
     InstallmentSum(quotes[i]) - quotes[i].totalEstimate > 100

\* C9: for every project type, scope and urgency, the score calculateComplexity
\* returns lies between the project type's base contribution and 10.0.
C9_ScoreWithinRange ==
  \A r \in Slots :
     req[r].pc = "g_saveScore"
     => LET base == CASE req[r].project.projectType = "creative" -> 100
                      [] req[r].project.projectType = "fullstack" -> 200
                      [] req[r].project.projectType = "web3" -> 300
                      [] req[r].project.projectType = "ai_automation" -> 250
        IN base <= req[r].complexityScore /\ req[r].complexityScore <= 1000

C9_Witness ==
  \E r \in Slots :
     /\ req[r].pc = "g_saveScore"
     /\ req[r].project.projectType = "creative"
     /\ req[r].complexityScore = 1000

\* C10: every generated quote has complexityAdjustment = baseRate x
\* (complexityMultiplier - 1), urgencyAdjustment = baseRate x
\* (urgencyMultiplier - 1), a missing urgency counting as standard, and
\* totalEstimate = baseRate + complexityAdjustment + urgencyAdjustment, both
\* adjustments being taken against the base rate.
C10_AdjustmentsAgainstBaseRate ==
  (response.request.op = "generateQuote" /\ response.status = 200)
  => LET q == response.body[1]
         project == response.request.project
         cm == COMPLEXITY_MULTIPLIERS[complexityLevel(response.request.complexityScore)]
         um == URGENCY_MULTIPLIERS[IF project.urgency = NoUrgency THEN "standard"
                                   ELSE project.urgency]
     IN /\ q.baseRate = BASE_RATES[project.projectType]
        /\ 10 * q.complexityAdjustment = q.baseRate * (cm - 10)
        /\ 10 * q.urgencyAdjustment = q.baseRate * (um - 10)
        /\ q.totalEstimate = q.baseRate + q.complexityAdjustment + q.urgencyAdjustment
        /\ 10 * q.totalEstimate = q.baseRate * (cm + um - 10)

C10_Witness ==
  /\ response.request.op = "generateQuote"
  /\ response.status = 200
  /\ response.body[1].complexityAdjustment > 0
  /\ response.body[1].urgencyAdjustment > 0

\* C11: generateQuote for a fullstack project with no stored complexity score,
\* a scope of 4 features and 2 payment integrations with no timeline, and
\* urgency urgent, under the default rates, computes and stores complexity
\* score 6.1 (level high) and answers with baseRate 8000, complexityAdjustment
\* 4000, urgencyAdjustment 2400, totalEstimate 14400 and notToExceed 16560.
C11_WorkedExample ==
  (/\ response.request.op = "generateQuote"
   /\ response.status = 200
   /\ BASE_RATES = DefaultRates
   /\ response.request.project.projectType = "fullstack"
   /\ response.request.project.complexityScore = NoScore
   /\ response.request.project.urgency = "urgent"
   /\ response.request.project.projectScope = PaymentScope)
  => LET q == response.body[1]
     IN /\ response.request.complexityScore = 610
        /\ projects[response.request.projectId].complexityScore = 610
        /\ 600 <= response.request.complexityScore
        /\ response.request.complexityScore < 800
        /\ q.baseRate = 800000
        /\ q.complexityAdjustment = 400000
        /\ q.urgencyAdjustment = 240000
        /\ q.totalEstimate = 1440000
        /\ q.notToExceed = 1656000

C11_Witness ==
  /\ response.request.op = "generateQuote"
  /\ response.status = 200
  /\ response.request.project.projectType = "fullstack"
  /\ response.request.project.complexityScore = NoScore
  /\ response.request.project.urgency = "urgent"
  /\ response.request.project.projectScope = PaymentScope
  /\ response.body[1].totalEstimate = 1440000

\* amount is base x share / 10000 rounded to a cent (at most half a cent away)
IsRoundedToCents(amount, base, share) ==
  LET rest == (amount - (base \div 10000) * share) * 10000 - (base % 10000) * share
  IN -5000 <= rest /\ rest <= 5000

\* C12: every result of calculatePricing has scaleAdjustment = base x
\* (scaleMultiplier - 1), complexityAdjustment = (base + scaleAdjustment) x
\* (tierMultiplier - 1) = base x scaleMultiplier x (tierMultiplier - 1) and
\* finalPrice = base x scaleMultiplier x tierMultiplier, each rounded to 2
\* decimals; base 5000 with scale multiplier 1.5 and tier multiplier 1.35
\* gives 2500, 2625 and 10125.00.
C12_ComplexityOnTopOfScale ==
  (response.request.op = "calculatePricing" /\ response.status = 200)
  => LET p == response.body[1]
         base == p.basePricing
         sm == p.scaleMultiplier
         tm == p.complexityAdjustment
     IN /\ IsRoundedToCents(p.breakdown.scaleAdjustment, base, (sm - 100) * 100)
        /\ IsRoundedToCents(p.breakdown.complexityAdjustment, base, sm * (tm - 100))
        /\ IsRoundedToCents(p.finalPrice, base, sm * tm)
        /\ (base = 500000 /\ sm = 150 /\ tm = 135)
           => /\ p.breakdown.scaleAdjustment = 250000
              /\ p.breakdown.complexityAdjustment = 262500
              /\ p.finalPrice = 1012500

C12_Witness ==
  /\ response.request.op = "calculatePricing"
  /\ response.status = 200
  /\ response.body[1].basePricing = 500000
  /\ response.body[1].scaleMultiplier = 150
  /\ response.body[1].complexityAdjustment = 135
  /\ response.body[1].finalPrice = 1012500

\* C13: POST /api/pricing/calculate for a price row with base price 5000, a
\* company scale with multiplier 1.5 and complexity rating 7 answers with
\* basePricing 5000, scaleMultiplier 1.5, complexityAdjustment 1.35,
\* finalPrice 9112.50 and breakdown base 5000, scaleAdjustment 2500,
\* complexityAdjustment 1612.50.
C13_DocumentedExample ==
  (/\ response.request.op = "calculatePricing"
   /\ response.status = 200
   /\ response.request.pricing.basePrice = 500000
   /\ response.request.pricing.scale.multiplier = 150
   /\ response.request.pricing.complexityRating = 7)
  => LET p == response.body[1]
     IN /\ p.basePricing = 500000
        /\ p.scaleMultiplier = 150
        /\ p.complexityAdjustment = 135
        /\ p.finalPrice = 911250
        /\ p.breakdown.base = 500000
        /\ p.breakdown.scaleAdjustment = 250000
        /\ p.breakdown.complexityAdjustment = 161250

\* C14: a calculatePricing call that passed the required-field check fails
\* with the category-not-found error when the revenue category key resolves
\* to no category, with the scale-not-found error when the category resolves
\* and the company scale key resolves to no scale, and with the
\* pricing-not-found error when both resolve and base_pricing has no row for
\* (bundleId, category id, scale id); otherwise it succeeds, and a rating with
\* no tier row is priced with multiplier 1.0: finalPrice = base x
\* scaleMultiplier.
C14_LookupFailures ==
  (/\ response.request.op = "calculatePricing"
   /\ response # NoResponse
   /\ response.status # 400)
  => LET pr == response.request.pricing
         categories == FindCategory(pr.revenueCategory)
         scales == FindScale(pr.companyRevenueScale)
         rows == {t \in DOMAIN basePricing :
                    /\ t[1] = pr.bundleId
                    /\ \E c \in categories : t[2] = c.id
                    /\ \E sc \in scales : t[3] = sc.id}
     IN IF categories = {}
          THEN response.status # 200 /\ response.error = "Revenue category not found"
        ELSE IF scales = {}
          THEN response.status # 200 /\ response.error = "Company scale not found"
        ELSE IF rows = {}
          THEN response.status # 200 /\ response.error = "No pricing found"
        ELSE /\ response.status = 200
             /\ pr.complexityRatingValue \notin 1..10
                => /\ response.body[1].complexityAdjustment = 100
                   /\ IsRoundedToCents(response.body[1].finalPrice,
                                       response.body[1].basePricing,
                                       response.body[1].scaleMultiplier * 100)
                   /\ response.body[1].breakdown.complexityAdjustment = 0

C14_Witness ==
  /\ response.request.op = "calculatePricing"
  /\ response.status = 200
  /\ response.request.pricing.complexityRatingValue = 11
  /\ response.body[1].basePricing = 500000
  /\ response.body[1].finalPrice = 750000

\* A calculatePricing call failed for want of a base_pricing row of a known bundle
C14_WitnessNoRow ==
  /\ response.request.op = "calculatePricing"
  /\ response.error = "No pricing found"
  /\ response.request.pricing.bundleId = "bundle_saas_pro"

\* C15: POST /api/pricing/calculate answers a request that lacks bundleId,
\* category key or scale key with 400, and a request whose revenue category,
\* company scale or price row cannot be resolved with 400 or 404, never with
\* 200 or 500.
C15_UnresolvedIsClientError ==
  (response.request.op = "calculatePricing" /\ response # NoResponse)
  => LET pr == response.request.pricing
     IN /\ (pr.bundleId = NoBundle \/ pr.revenueCategory = NoKey
            \/ pr.companyRevenueScale = NoKey)
           => response.status = 400
        /\ (\/ pr.revCategory = Null
            \/ pr.scale = Null
            \/ pr.basePrice = NoPrice)
           => response.status \in {400, 404}

\* C16: calculatePricing resolves a revenue category, and likewise a company
\* scale, from every key that equals the entity's code or its name in any
\* letter case: the look-up returns that entity.
C16_CaseInsensitiveLookup ==
  (/\ response.request.op = "calculatePricing"
   /\ response # NoResponse
   /\ response.status # 400)
  => LET pr == response.request.pricing
     IN /\ \A c \in RevenueCategories :
             (\/ InsensitiveEquals(pr.revenueCategory, c.code)
              \/ InsensitiveEquals(pr.revenueCategory, c.name))
             => pr.revCategory = c
        /\ pr.revCategory # Null
           => \A sc \in CompanyScales :
                 (\/ InsensitiveEquals(pr.companyRevenueScale, sc.code)
                  \/ InsensitiveEquals(pr.companyRevenueScale, sc.name))
                 => pr.scale = sc

\* C17: no step deletes a quote, and no step changes a stored quote's owner,
\* project, baseRate, complexityAdjustment, urgencyAdjustment, totalEstimate,
\* notToExceed, timeline, delivery date, payment structure or validUntil; a
\* step that changes a stored quote is a step of acceptQuote or declineQuote
\* and changes only status, termsAccepted, acceptedAt and metadata.
C17_QuoteFrame ==
  [][/\ Len(quotes') >= Len(quotes)
     /\ \A i \in 1..Len(quotes) :
          /\ quotes'[i].id = quotes[i].id
          /\ quotes'[i].userId = quotes[i].userId
          /\ quotes'[i].projectId = quotes[i].projectId
          /\ quotes'[i].baseRate = quotes[i].baseRate
          /\ quotes'[i].complexityAdjustment = quotes[i].complexityAdjustment
          /\ quotes'[i].urgencyAdjustment = quotes[i].urgencyAdjustment
          /\ quotes'[i].totalEstimate = quotes[i].totalEstimate
          /\ quotes'[i].notToExceed = quotes[i].notToExceed
          /\ quotes'[i].estimatedTimelineWeeks = quotes[i].estimatedTimelineWeeks
          /\ quotes'[i].deliveryDate = quotes[i].deliveryDate
          /\ quotes'[i].paymentStructure = quotes[i].paymentStructure
          /\ quotes'[i].validUntil = quotes[i].validUntil
          /\ quotes'[i].createdAt = quotes[i].createdAt
          /\ quotes'[i] # quotes[i]
             => \E r \in Slots :
                   /\ req[r].op \in {"acceptQuote", "declineQuote"}
                   /\ req[r].quoteId = i
                   /\ req[r].pc \in {"a_updateQuote", "d_updateQuote"}
                   /\ req'[r].pc # req[r].pc]_vars

C17_Witness ==
  \E i, j \in 1..Len(quotes) :
     /\ quotes[i].metadata.declinedAt # NoTime
     /\ quotes[j].status = "accepted"
     /\ quotes[j].acceptedAt > 0

\* C18: a quote generated at time t has validUntil = t + 30 days; an
\* acceptQuote by its owner on the pending quote at any time up to and
\* including t + 30 days is not rejected as expired, and one after t + 30
\* days is.
C18_ValidForThirtyDays ==
  /\ \A i \in 1..Len(quotes) :
        quotes[i].validUntil = quotes[i].createdAt + ValidityDays * TicksPerDay
  /\ (/\ response.request.op = "acceptQuote"
      /\ response # NoResponse
      /\ response.request.quote # Null
      /\ response.request.userId = response.request.quote.userId
      /\ response.request.quote.status = "pending")
     => LET q == response.request.quote
            expired == response.error = "Quote has expired"
        IN IF response.request.checkedAt <= q.createdAt + ValidityDays * TicksPerDay
           THEN ~expired ELSE expired

\* C19: a generateQuote by an authenticated user answers 404 when the project
\* does not exist and 403 when the project belongs to another user, also when
\* that project has an active quote; in both cases it creates no quote and
\* leaves every project's status and complexity score as they are.
C19_NotFoundAndForbidden ==
  [][(/\ response = NoResponse
      /\ response' # NoResponse
      /\ response'.request.op = "generateQuote"
      /\ response'.request.userId \in Users)
     => LET rq == response'.request
        IN /\ rq.projectId \notin ProjectIds
              => /\ response'.status = 404
                 /\ response'.error = "Project not found"
                 /\ rq.writes = {}
                 /\ UNCHANGED <<quotes, projects, auditLog>>
           /\ (rq.projectId \in ProjectIds /\ projects[rq.projectId].userId # rq.userId)
              => /\ response'.status = 403
                 /\ response'.error = "Access denied"
                 /\ rq.writes = {}
                 /\ UNCHANGED <<quotes, projects, auditLog>>]_vars

C19_Witness ==
  /\ response.request.op = "generateQuote"
  /\ response.status = 403
  /\ response.request.projectId \in ProjectIds
  /\ ActiveQuotesOf(response.request.projectId) # {}
  /\ projects[response.request.projectId].userId # response.request.userId

\* A generateQuote for a project that does not exist was answered 404
C19_WitnessNotFound ==
  /\ response.request.op = "generateQuote"
  /\ response.status = 404
  /\ response.request.projectId = MissingProject

C21_SingleUse ==
  [][\A r \in Slots :
       (req[r].pc = "o_update" /\ response' = Returned(req[r], TRUE))
         => /\ ~otpVerifications[req[r].otp.otpRecord].verified
            /\ otpVerifications[req[r].otp.otpRecord].expiresAt >= req[r].checkedAt]_vars

\* C21, the part on expiry alone: a call that returns true found a record
\* whose expiresAt was not earlier than the time of the call
C21_NeverExpired ==
  [][\A r \in Slots :
       (req[r].pc = "o_update" /\ response' = Returned(req[r], TRUE))
         => otpVerifications[req[r].otp.otpRecord].expiresAt >= req[r].checkedAt]_vars

\* Two calls are past findFirst with the same record
C21_WitnessRace ==
  /\ req[1].pc = "o_update"
  /\ req[2].pc = "o_update"
  /\ req[1].otp.otpRecord = req[2].otp.otpRecord

\* C22: the complexity score generateQuote computes for a project with no
\* stored score is min(10.0, min(0.5 x features, 3.0) + min(0.8 x k, 3.0)
\* + timeline points + type points + urgency points), where k counts the
\* integrations of type payment, blockchain, ai or custom_api only, the
\* timeline adds 1.5 for urgent and 2.5 for critical, the type adds 1.0
\* (creative), 2.0 (fullstack), 3.0 (web3) or 2.5 (ai_automation), the urgency
\* adds 0.5 for urgent and 1.0 for critical, and an absent scope or an absent
\* list counts as empty.
C22_ScoreFormula ==
  \A r \in Slots :
     req[r].pc = "g_saveScore" =>
       LET project == req[r].project
           scope == project.projectScope
           has(field) == scope # Null /\ field \in DOMAIN scope
           featureCount == IF has("features") THEN Len(scope.features) ELSE 0
           k == IF has("integrations")
                THEN Cardinality({i \in DOMAIN scope.integrations :
                                    scope.integrations[i].type
                                      \in {"payment", "blockchain", "ai", "custom_api"}})
                ELSE 0
           timelinePts == IF has("timeline") /\ scope.timeline = "urgent" THEN 150
                          ELSE IF has("timeline") /\ scope.timeline = "critical" THEN 250
                          ELSE 0
           typeBase == CASE project.projectType = "creative" -> 100
                         [] project.projectType = "fullstack" -> 200
                         [] project.projectType = "web3" -> 300
                         [] project.projectType = "ai_automation" -> 250
           urgencyPts == IF project.urgency = "urgent" THEN 50
                         ELSE IF project.urgency = "critical" THEN 100
                         ELSE 0
       IN req[r].complexityScore =
            Min(1000, Min(50 * featureCount, 300) + Min(80 * k, 300)
                      + timelinePts + typeBase + urgencyPts)

\* A score is computed for a scope with more features than the cap counts,
\* an integration that is not complex, and a critical timeline
C22_Witness ==
  \E r \in Slots :
     /\ req[r].pc = "g_saveScore"
     /\ req[r].project.projectScope = ScopeOf(7, 1, 1, "critical")
     /\ req[r].project.projectType = "creative"
     /\ req[r].project.urgency = "standard"
     /\ req[r].complexityScore = 730

\* A score is computed for a scope that has no features list
C22_WitnessAbsentList ==
  \E r \in Slots :
     /\ req[r].pc = "g_saveScore"
     /\ req[r].project.projectScope \in PartialScopes
     /\ "features" \notin DOMAIN req[r].project.projectScope
     /\ req[r].complexityScore > 0

\* The multiplier of the level of a score never decreases as the score grows
C23_MultiplierMonotone ==
  \A score \in 0..(ScoreCap - 1) :
     COMPLEXITY_MULTIPLIERS[complexityLevel(score)]
       <= COMPLEXITY_MULTIPLIERS[complexityLevel(score + 1)]

\* C23: the level thresholds are half-open: a quote generated with complexity
\* score s carries the complexity adjustment of multiplier 1.0 for s < 3, 1.3
\* for 3 <= s < 6, 1.5 for 6 <= s < 8 and 1.8 for s >= 8, so the scores 3, 6
\* and 8 themselves have the multipliers 1.3, 1.5 and 1.8, and the multiplier
\* never decreases as the score grows.
C23_HalfOpenThresholds ==
  /\ C23_MultiplierMonotone
  /\ (response.request.op = "generateQuote" /\ response.status = 200) =>
       LET q == response.body[1]
           score == response.request.complexityScore
           multiplier == IF score < 300 THEN 10
                         ELSE IF score < 600 THEN 13
                         ELSE IF score < 800 THEN 15
                         ELSE 18
       IN 10 * q.complexityAdjustment = q.baseRate * (multiplier - 10)

\* A quote is generated with a score that is exactly a threshold
C23_Witness ==
  /\ response.request.op = "generateQuote"
  /\ response.status = 200
  /\ response.request.complexityScore = 600
  /\ 10 * response.body[1].complexityAdjustment = response.body[1].baseRate * 5

\* C24: every successful generateQuote creates exactly one new quote with
\* status pending, termsAccepted false and no acceptedAt, owned by the
\* requesting user and linked to the project, sets the project's status to
\* quote_generated, and appends exactly one audit-log entry with action
\* quote_generated that references the new quote: each step of the request
\* has exactly its own effect, and the 200 response follows the last one.
C24_GenerateEffects ==
  [][/\ \A r \in Slots :
          (req[r].op = "generateQuote" /\ req'[r] # req[r]) =>
            LET pid == req[r].projectId
            IN CASE req[r].pc = "g_create" ->
                      /\ Len(quotes') = Len(quotes) + 1
                      /\ SubSeq(quotes', 1, Len(quotes)) = quotes
                      /\ LET q == quotes'[Len(quotes')]
                         IN /\ q.status = "pending"
                            /\ q.termsAccepted = FALSE
                            /\ q.acceptedAt = NoTime
                            /\ q.userId = req[r].userId
                            /\ q.projectId = pid
                            /\ req'[r].quoteId = q.id
                            /\ q.id = Len(quotes')
                      /\ req'[r].pc = "g_updateProject"
                      /\ UNCHANGED <<projects, auditLog>>
                 [] req[r].pc = "g_updateProject" ->
                      /\ projects' = [projects EXCEPT ![pid].status = "quote_generated"]
                      /\ req'[r].pc = "g_log"
                      /\ req'[r].quoteId = req[r].quoteId
                      /\ UNCHANGED <<quotes, auditLog>>
                 [] req[r].pc = "g_log" ->
                      /\ Len(auditLog') = Len(auditLog) + 1
                      /\ SubSeq(auditLog', 1, Len(auditLog)) = auditLog
                      /\ auditLog'[Len(auditLog')].action = "quote_generated"
                      /\ auditLog'[Len(auditLog')].entityId = req[r].quoteId
                      /\ auditLog'[Len(auditLog')].userId = req[r].userId
                      /\ response'.status = 200
                      /\ response'.body[1].id = req[r].quoteId
                      /\ UNCHANGED <<quotes, projects>>
                 [] OTHER ->
                      /\ projects'[pid].status = projects[pid].status
                      /\ UNCHANGED <<quotes, auditLog>>
     /\ (response = NoResponse /\ response'.request.op = "generateQuote"
           /\ response'.status = 200)
          => \E r \in Slots : req[r].pc = "g_log" /\ req'[r].pc = "idle"]_vars

\* generateQuote has answered 200 while another request is in flight: the new
\* quote is stored and the last audit-log entry references it
C24_Witness ==
  /\ response.request.op = "generateQuote"
  /\ response.status = 200
  /\ InFlight # {}
  /\ quotes[response.body[1].id].projectId = response.request.projectId
  /\ auditLog[Len(auditLog)].action = "quote_generated"
  /\ auditLog[Len(auditLog)].entityId = response.body[1].id

\* C25, the part on a stored score: a generateQuote that finds a score stored
\* on the project prices the quote with it, and no step replaces a stored
\* score
C25_StoredScoreReused ==
  [][\A r \in Slots :
       LET pid == req[r].projectId
       IN /\ (req[r].pc = "g_findExisting" /\ req'[r].pc \notin {"idle", "g_findExisting"}
                /\ req[r].project.complexityScore # NoScore)
               => /\ req'[r].pc = "g_create"
                  /\ req'[r].complexityScore = req[r].project.complexityScore
          /\ (req[r].pc = "g_create" /\ req'[r].pc = "g_updateProject")
               => quotes'[Len(quotes')] =
                    NewQuote(Len(quotes'), pid, req[r].userId, req[r].project,
                             projects[pid].complexityScore, now)
          /\ \A p \in ProjectIds :
               projects[p].complexityScore # NoScore
                 => projects'[p].complexityScore = projects[p].complexityScore]_vars

\* C25: the complexity score is computed at most once per project: a
\* generateQuote that finds a stored score uses it and neither recomputes nor
\* overwrites it, and a generateQuote that finds none computes the score and
\* persists it, so that every later quote of the project uses the same score
C25_ScoreComputedOnce ==
  [][\A r \in Slots :
       LET pid == req[r].projectId
       IN /\ (req[r].pc = "g_findExisting" /\ req'[r].pc \notin {"idle", "g_findExisting"}
                /\ req[r].project.complexityScore # NoScore)
               => /\ req'[r].pc = "g_create"
                  /\ req'[r].complexityScore = req[r].project.complexityScore
          /\ (req[r].pc = "g_saveScore" /\ req'[r] # req[r])
               => /\ projects'[pid].complexityScore = req[r].complexityScore
                  /\ req'[r].pc = "g_create"
          /\ \A p \in ProjectIds :
               projects[p].complexityScore # NoScore
                 => projects'[p].complexityScore = projects[p].complexityScore]_vars

\* C26: re-quoting never breaks the ceiling: of two quotes of one project, the
\* later has a totalEstimate no greater than the notToExceed of the earlier,
\* and, the rate table being fixed, both carry the same baseRate,
\* totalEstimate and notToExceed, whatever generateQuote, acceptQuote and
\* declineQuote calls were made.
C26_RequoteWithinCeiling ==
  \A i \in 1..Len(quotes), j \in 1..Len(quotes) :
     (i < j /\ quotes[i].projectId = quotes[j].projectId) =>
       /\ quotes[j].totalEstimate <= quotes[i].notToExceed
       /\ quotes[j].baseRate = quotes[i].baseRate
       /\ quotes[j].totalEstimate = quotes[i].totalEstimate
       /\ quotes[j].notToExceed = quotes[i].notToExceed

\* A project whose first quote was declined has been quoted again
C26_Witness ==
  /\ Len(quotes) >= 2
  /\ quotes[1].projectId = quotes[2].projectId
  /\ quotes[1].status = "declined"
  /\ quotes[2].status = "pending"
  /\ quotes[2].createdAt > quotes[1].createdAt

\* The sum of the three parts of a returned breakdown, in cents
BreakdownSum(p) ==
  p.breakdown.base + p.breakdown.scaleAdjustment + p.breakdown.complexityAdjustment

\* C27: the breakdown returned by calculatePricing is additive: for every
\* base price, scale multiplier and tier multiplier, the returned finalPrice
\* equals breakdown.base + breakdown.scaleAdjustment +
\* breakdown.complexityAdjustment as returned.
C27_BreakdownAdditive ==
  (response.request.op = "calculatePricing" /\ response.status = 200)
  => response.body[1].finalPrice = BreakdownSum(response.body[1])

\* C27, as it holds: the returned finalPrice differs from the sum of the
\* returned parts of the breakdown by at most one cent, and equals it when the
\* base price is a multiple of 100 currency units.
C27_AdditiveWithinOneCent ==
  (response.request.op = "calculatePricing" /\ response.status = 200)
  => LET p == response.body[1]
     IN /\ p.finalPrice - BreakdownSum(p) \in {-1, 0, 1}
        /\ p.basePricing % 10000 = 0 => p.finalPrice = BreakdownSum(p)

\* A price is returned that is one cent away from the sum of its breakdown
C27_Witness ==
  /\ response.request.op = "calculatePricing"
  /\ response.status = 200
  /\ response.body[1].basePricing = 1010
  /\ response.body[1].scaleMultiplier = 150
  /\ response.body[1].complexityAdjustment = 70
  /\ response.body[1].finalPrice = 1060
  /\ response.body[1].breakdown.scaleAdjustment = 505
  /\ response.body[1].breakdown.complexityAdjustment = -454

\* C28: a quote whose status is declined never becomes accepted, in any
\* interleaving of acceptQuote and declineQuote requests of the owner on the
\* same pending quote: an accept that writes after a decline has committed
\* does not turn the quote to accepted.
C28_DeclinedNeverAccepted ==
  [][\A q \in 1..Len(quotes) :
       quotes[q].status = "declined" => quotes'[q].status # "accepted"]_vars

\* An acceptQuote has passed its status check on a pending quote that a
\* declineQuote has since declined
C28_WitnessRace ==
  \E r \in Slots :
     /\ req[r].pc = "a_updateQuote"
     /\ req[r].quote.status = "pending"
     /\ quotes[req[r].quoteId].status = "declined"

\* C29: project status and quote status stay consistent: in every state
\* reached by generateQuote, acceptQuote and declineQuote calls, a project
\* whose status is quote_accepted has a quote with status accepted.
C29_AcceptedProjectHasAcceptedQuote ==
  \A p \in ProjectIds :
     projects[p].status = "quote_accepted"
       => \E q \in 1..Len(quotes) :
             quotes[q].projectId = p /\ quotes[q].status = "accepted"

\* C30: every score the estimator returns, the capped maximum 10.00 included,
\* fits the complexity_score column, whose greatest value is 9.99, so that no
\* generateQuote fails on storing the score: a request that is authorized,
\* finds its project and finds no active quote answers 200.
C30_EveryScoreStored ==
  /\ \A r \in Slots : req[r].pc = "g_saveScore" => req[r].complexityScore <= 999
  /\ (/\ response.request.op = "generateQuote"
      /\ response.status \notin {401, 403, 404}
      /\ response.error # "Active quote already exists for this project")
     => response.status = 200
====
